---- MODULE Spec2Model ----
(***************************************************************************)
(* Model of common/collections.ts: the ByteArray little-endian codec,      *)
(* the TypedMap / Entity association list and the Result wrapper.          *)
(*                                                                         *)
(* Four specifications share the module:                                   *)
(*   SpecBytes   a ByteArray is constructed, then converted                *)
(*   SpecMap     an Entity is mutated and queried from empty               *)
(*   SpecMerge   Entity.merge applied to a receiver and a source list      *)
(*   SpecResult  Result instances are produced, then read                  *)
(* The variables of the other families stay at their idle values.          *)
(***************************************************************************)
EXTENDS Integers, Sequences, FiniteSets, TLC

VARIABLES
  bytes,    \* ByteArray: the elements of `this` (u8 each), index 1 = byte 0
  origin,   \* ByteArray: how `this` was constructed
  arg,      \* ByteArray: the i32 handed to fromI32 (0 otherwise)
  conv,     \* ByteArray: the last conversion called on `this` and its outcome
  entries,  \* TypedMap: this.entries, a sequence of [key, value]
  call,     \* TypedMap: the last method called on the map and what it returned
  sources,  \* Entity.merge: the `sources` array handed to merge
  before,   \* Entity.merge: the receiver's entries when merge was entered
  results,  \* Result: the instances that exist, each [_value, _error]
  access    \* Result: the last getter read and its outcome

vars == <<bytes, origin, arg, conv, entries, call, sources, before, results, access>>

bytesVars == <<bytes, origin, arg, conv>>
mapVars == <<entries, call, sources, before>>
resultVars == <<results, access>>

(***************************************************************************)
(* Fixed-width integer arithmetic of AssemblyScript. An i32 is the integer *)
(* it denotes; a u32 is its two 16-bit halves [hi, lo], since 2^32 - 1 is  *)
(* beyond the integers TLC computes with. No operator below forms an       *)
(* intermediate outside [-2^31, 2^31 - 1].                                 *)
(***************************************************************************)
MinI32 == -(2 ^ 30) - (2 ^ 30)
MaxI32 == (2 ^ 30 - 1) + 2 ^ 30

\* `x as u8`: the low 8 bits.
AsU8(x) == x % 256

\* `x >> n` on an i32: arithmetic shift, rounds toward minus infinity.
ShrI32(x, n) == x \div (2 ^ n)

\* `b >> n` on a u8: logical shift.
ShrU8(b, n) == b \div (2 ^ n)

\* Bitwise or of two naturals.
RECURSIVE BitOr(_, _)
BitOr(a, b) ==
  IF a = 0 THEN b
  ELSE IF b = 0 THEN a
  ELSE (IF a % 2 = 1 \/ b % 2 = 1 THEN 1 ELSE 0) + 2 * BitOr(a \div 2, b \div 2)

\* `x | b` for an i32 x and a u8 b: only the low byte of x changes.
OrI32(x, b) == (x - (x % 256)) + BitOr(x % 256, b)

\* `x << 8` on an i32: the top byte falls off, bit 23 becomes the sign.
Shl8I32(x) ==
  LET low == x % (2 ^ 24)
  IN IF low >= 2 ^ 23 THEN (low - 2 ^ 24) * 256 ELSE low * 256

\* The u32 zero, `x | b` and `x << 8` on a u32.
ZeroU32 == [hi |-> 0, lo |-> 0]
OrU32(x, b) == [hi |-> x.hi, lo |-> (x.lo - (x.lo % 256)) + BitOr(x.lo % 256, b)]
Shl8U32(x) == [hi |-> (x.hi % 256) * 256 + (x.lo \div 256), lo |-> (x.lo % 256) * 256]

(***************************************************************************)
(* ByteArray                                                               *)
(***************************************************************************)
\* Longest buffer wrapped from raw memory.
MaxLen == 6

\* Byte values buffers are filled with: both padding values, both sides of
\* the sign bit, and a small value.
ByteVals == {0, 1, 127, 128, 255}

Buffers == UNION {[1..n -> ByteVals] : n \in 0..MaxLen}

\* i32 arguments of fromI32: every +-2^k and its neighbours, so both ends
\* of the range, -1, 0 and every byte boundary are there.
I32Inputs ==
  {s * (2 ^ k) + d : s \in {-1, 1}, k \in 0..30, d \in {-1, 0, 1}}
    \cup {MinI32, MinI32 + 1, MaxI32 - 1, MaxI32}

Aborted == [status |-> "abort"]
Returned(v) == [status |-> "ok", value |-> v]

NoConv == [op |-> "none"]

\* The third byte written again where the fourth belongs.
fromI32Slip(x) ==
  <<AsU8(x), AsU8(ShrI32(x, 8)), AsU8(ShrI32(x, 16)), AsU8(ShrI32(x, 16))>>

\* ByteArray.fromI32
fromI32(x) ==
  <<AsU8(x), AsU8(ShrI32(x, 8)), AsU8(ShrI32(x, 16)), AsU8(ShrI32(x, 24))>>

\* The overflow scan starting one byte late.
toU32Late(this) ==
  IF \E i \in 6..Len(this) : this[i] # 0
  THEN Aborted
  ELSE LET minLen == IF 4 < Len(this) THEN 4 ELSE Len(this)
           paddedBytes == [i \in 1..4 |-> IF i <= minLen THEN this[i] ELSE 0]
           x1 == Shl8U32(OrU32(ZeroU32, paddedBytes[4]))
           x2 == Shl8U32(OrU32(x1, paddedBytes[3]))
           x3 == Shl8U32(OrU32(x2, paddedBytes[2]))
       IN Returned(OrU32(x3, paddedBytes[1]))

\* ByteArray.toU32. Code index i is position i + 1 here; assert(false)
\* aborts the call.
toU32(this) ==
  IF \E i \in 5..Len(this) : this[i] # 0
  THEN Aborted
  ELSE LET minLen == IF 4 < Len(this) THEN 4 ELSE Len(this)
           paddedBytes == [i \in 1..4 |-> IF i <= minLen THEN this[i] ELSE 0]
           x1 == Shl8U32(OrU32(ZeroU32, paddedBytes[4]))
           x2 == Shl8U32(OrU32(x1, paddedBytes[3]))
           x3 == Shl8U32(OrU32(x2, paddedBytes[2]))
       IN Returned(OrU32(x3, paddedBytes[1]))

\* ByteArray.toI32
toI32(this) ==
  LET isNeg == Len(this) > 0 /\ ShrU8(this[Len(this)], 7) = 1
      padding == IF isNeg THEN 255 ELSE 0
  IN IF \E i \in 5..Len(this) : this[i] # padding
     THEN Aborted
     ELSE LET minLen == IF 4 < Len(this) THEN 4 ELSE Len(this)
              paddedBytes == [i \in 1..4 |-> IF i <= minLen THEN this[i] ELSE padding]
              x1 == Shl8I32(OrI32(0, paddedBytes[4]))
              x2 == Shl8I32(OrI32(x1, paddedBytes[3]))
              x3 == Shl8I32(OrI32(x2, paddedBytes[2]))
          IN Returned(OrI32(x3, paddedBytes[1]))

BytesIdle ==
  /\ bytes = <<>>
  /\ origin = "none"
  /\ arg = 0
  /\ conv = NoConv

\* ByteArray.fromI32(x): a new 4-byte array.
FromI32 ==
  /\ origin = "none"
  /\ \E x \in I32Inputs :
       /\ bytes' = fromI32(x)
       /\ arg' = x
  /\ origin' = "fromI32"
  /\ conv' = NoConv
  /\ UNCHANGED <<mapVars, resultVars>>

\* Bytes.fromUint8Array(a): the host's raw bytes, reinterpreted unchanged.
FromUint8Array ==
  /\ origin = "none"
  /\ \E a \in Buffers : bytes' = a
  /\ arg' = 0
  /\ origin' = "fromUint8Array"
  /\ conv' = NoConv
  /\ UNCHANGED <<mapVars, resultVars>>

\* this.toU32()
ToU32 ==
  /\ origin # "none"
  /\ conv' = [op |-> "toU32", ret |-> toU32(bytes)]
  /\ UNCHANGED <<bytes, origin, arg, mapVars, resultVars>>

\* this.toI32()
ToI32 ==
  /\ origin # "none"
  /\ conv' = [op |-> "toI32", ret |-> toI32(bytes)]
  /\ UNCHANGED <<bytes, origin, arg, mapVars, resultVars>>

(***************************************************************************)
(* Value (value.ts, imported): the tagged union stored in an Entity. Only  *)
(* the tag and an opaque payload matter to the map.                        *)
(***************************************************************************)
ValueFromNull == [kind |-> "NULL", data |-> "null"]
ValueFromString(v) == [kind |-> "STRING", data |-> v]
ValueFromI32(v) == [kind |-> "INT", data |-> v]
ValueFromBigInt(v) == [kind |-> "BIGINT", data |-> v]
ValueFromBytes(v) == [kind |-> "BYTES", data |-> v]
ValueFromBoolean(v) == [kind |-> "BOOL", data |-> v]
ValueFromBigDecimal(v) == [kind |-> "BIGDECIMAL", data |-> v]

\* Arguments of the typed setters, one payload per type.
StringArgs == {"alice"}
I32Args == {"42"}
BigIntArgs == {"10^18"}
BytesArgs == {"0xff00"}
BooleanArgs == {"true"}
BigDecimalArgs == {"1.5"}

Values ==
  {ValueFromNull}
    \cup {ValueFromString(v) : v \in StringArgs}
    \cup {ValueFromI32(v) : v \in I32Args}
    \cup {ValueFromBigInt(v) : v \in BigIntArgs}
    \cup {ValueFromBytes(v) : v \in BytesArgs}
    \cup {ValueFromBoolean(v) : v \in BooleanArgs}
    \cup {ValueFromBigDecimal(v) : v \in BigDecimalArgs}

(***************************************************************************)
(* TypedMap<K, V> and Entity                                               *)
(***************************************************************************)
\* Attribute names used as keys.
Keys == {"id", "name"}

\* new TypedMapEntry(key, value)
TypedMapEntry(key, value) == [key |-> key, value |-> value]

\* The scan stopping one entry early.
getEntryShort(es, key) ==
  IF \E i \in 1..(Len(es) - 1) : es[i].key = key
  THEN CHOOSE i \in 1..(Len(es) - 1) :
         es[i].key = key /\ \A j \in 1..(i - 1) : es[j].key # key
  ELSE 0

\* TypedMap.getEntry: the position of the first entry whose key equals
\* `key` (the entry is returned by reference), 0 for null.
getEntry(es, key) ==
  IF \E i \in 1..Len(es) : es[i].key = key
  THEN CHOOSE i \in 1..Len(es) :
         es[i].key = key /\ \A j \in 1..(i - 1) : es[j].key # key
  ELSE 0

NullRef == [found |-> FALSE]
ValueRef(v) == [found |-> TRUE, value |-> v]
EntryRef(es, i) == [found |-> TRUE, index |-> i, key |-> es[i].key, value |-> es[i].value]

\* TypedMap.get: the value of the first entry whose key equals `key`, or null.
get(es, key) ==
  IF \E i \in 1..Len(es) : es[i].key = key
  THEN ValueRef(es[CHOOSE i \in 1..Len(es) :
                     es[i].key = key /\ \A j \in 1..(i - 1) : es[j].key # key].value)
  ELSE NullRef

\* The scan starting at the second entry.
isSetSkipFirst(es, key) == \E i \in 2..Len(es) : es[i].key = key

\* TypedMap.isSet
isSet(es, key) == \E i \in 1..Len(es) : es[i].key = key

\* A new entry put in front instead of pushed at the end.
setUnshift(es, key, value) ==
  LET entry == getEntry(es, key)
  IN IF entry # 0
     THEN [es EXCEPT ![entry].value = value]
     ELSE <<TypedMapEntry(key, value)>> \o es

\* TypedMap.set: the entries after this.set(key, value).
set(es, key, value) ==
  LET entry == getEntry(es, key)
  IN IF entry # 0
     THEN [es EXCEPT ![entry].value = value]
     ELSE Append(es, TypedMapEntry(key, value))

\* The entry deleted from the sequence.
unsetRemove(es, key) ==
  LET entry == getEntry(es, key)
  IN IF entry # 0
     THEN SubSeq(es, 1, entry - 1) \o SubSeq(es, entry + 1, Len(es))
     ELSE es

\* Entity.unset
unset(es, key) == set(es, key, ValueFromNull)

\* Entity.merge, inner loop: entries[j..] of one source set on target.
RECURSIVE mergeEntries(_, _, _)
mergeEntries(target, srcEntries, j) ==
  IF j > Len(srcEntries)
  THEN target
  ELSE mergeEntries(set(target, srcEntries[j].key, srcEntries[j].value), srcEntries, j + 1)

\* Entity.merge, outer loop: sources[i..] applied in array order.
RECURSIVE mergeFrom(_, _, _)
mergeFrom(target, srcs, i) ==
  IF i > Len(srcs)
  THEN target
  ELSE mergeFrom(mergeEntries(target, srcs[i], 1), srcs, i + 1)

\* The sources walked from the last to the first.
RECURSIVE mergeBackFrom(_, _, _)
mergeBackFrom(target, srcs, i) ==
  IF i < 1
  THEN target
  ELSE mergeBackFrom(mergeEntries(target, srcs[i], 1), srcs, i - 1)

mergeReversed(target, srcs) == mergeBackFrom(target, srcs, Len(srcs))

\* Entity.merge: the receiver's entries after this.merge(srcs).
merge(target, srcs) == mergeFrom(target, srcs, 1)

\* Most sources handed to one merge.
MaxSources == 2

DistinctKeys(es) == \A i, j \in 1..Len(es) : i # j => es[i].key # es[j].key

\* Entities with at most n entries whose values are drawn from vals.
EntitiesUpTo(n, vals) ==
  UNION {{es \in [1..m -> [key : Keys, value : vals]] : DistinctKeys(es)} : m \in 0..n}

\* Values carried by the sources of a merge.
SourceValues == {ValueFromString("alice"), ValueFromNull}

SourceEntities == EntitiesUpTo(Cardinality(Keys), SourceValues)

SourceLists == UNION {[1..n -> SourceEntities] : n \in 0..MaxSources}

\* Receivers of a merge.
MergeTargets == EntitiesUpTo(Cardinality(Keys), Values)

NoCall == [op |-> "none"]

MapIdle ==
  /\ entries = <<>>
  /\ call = NoCall
  /\ sources = <<>>
  /\ before = <<>>

\* this.set(key, value)
Set ==
  /\ \E key \in Keys, value \in Values :
       /\ entries' = set(entries, key, value)
       /\ call' = [op |-> "set", key |-> key, value |-> value,
                   hit |-> getEntry(entries, key) # 0]
  /\ UNCHANGED <<sources, before, bytesVars, resultVars>>

\* this.unset(key)
Unset ==
  /\ \E key \in Keys :
       /\ entries' = unset(entries, key)
       /\ call' = [op |-> "unset", key |-> key, value |-> ValueFromNull,
                   hit |-> getEntry(entries, key) # 0]
  /\ UNCHANGED <<sources, before, bytesVars, resultVars>>

\* this.setString(key, value)
SetString ==
  /\ \E key \in Keys, value \in StringArgs :
       /\ entries' = set(entries, key, ValueFromString(value))
       /\ call' = [op |-> "setString", key |-> key, value |-> ValueFromString(value)]
  /\ UNCHANGED <<sources, before, bytesVars, resultVars>>

\* this.setI32(key, value)
SetI32 ==
  /\ \E key \in Keys, value \in I32Args :
       /\ entries' = set(entries, key, ValueFromI32(value))
       /\ call' = [op |-> "setI32", key |-> key, value |-> ValueFromI32(value)]
  /\ UNCHANGED <<sources, before, bytesVars, resultVars>>

\* this.setBigInt(key, value)
SetBigInt ==
  /\ \E key \in Keys, value \in BigIntArgs :
       /\ entries' = set(entries, key, ValueFromBigInt(value))
       /\ call' = [op |-> "setBigInt", key |-> key, value |-> ValueFromBigInt(value)]
  /\ UNCHANGED <<sources, before, bytesVars, resultVars>>

\* this.setBytes(key, value)
SetBytes ==
  /\ \E key \in Keys, value \in BytesArgs :
       /\ entries' = set(entries, key, ValueFromBytes(value))
       /\ call' = [op |-> "setBytes", key |-> key, value |-> ValueFromBytes(value)]
  /\ UNCHANGED <<sources, before, bytesVars, resultVars>>

\* this.setBoolean(key, value)
SetBoolean ==
  /\ \E key \in Keys, value \in BooleanArgs :
       /\ entries' = set(entries, key, ValueFromBoolean(value))
       /\ call' = [op |-> "setBoolean", key |-> key, value |-> ValueFromBoolean(value)]
  /\ UNCHANGED <<sources, before, bytesVars, resultVars>>

\* this.setBigDecimal(key, value)
SetBigDecimal ==
  /\ \E key \in Keys, value \in BigDecimalArgs :
       /\ entries' = set(entries, key, ValueFromBigDecimal(value))
       /\ call' = [op |-> "setBigDecimal", key |-> key, value |-> ValueFromBigDecimal(value)]
  /\ UNCHANGED <<sources, before, bytesVars, resultVars>>

\* this.get(key)
Get ==
  /\ \E key \in Keys : call' = [op |-> "get", key |-> key, ret |-> get(entries, key)]
  /\ UNCHANGED <<entries, sources, before, bytesVars, resultVars>>

\* this.getEntry(key)
GetEntry ==
  /\ \E key \in Keys :
       LET entry == getEntry(entries, key)
       IN call' = [op |-> "getEntry", key |-> key,
                   ret |-> IF entry # 0 THEN EntryRef(entries, entry) ELSE NullRef]
  /\ UNCHANGED <<entries, sources, before, bytesVars, resultVars>>

\* this.isSet(key)
IsSet ==
  /\ \E key \in Keys : call' = [op |-> "isSet", key |-> key, ret |-> isSet(entries, key)]
  /\ UNCHANGED <<entries, sources, before, bytesVars, resultVars>>

\* this.merge(srcs), the sources being other entities.
Merge ==
  /\ \E srcs \in SourceLists :
       /\ entries' = merge(entries, srcs)
       /\ call' = [op |-> "merge", count |-> Len(srcs)]
  /\ UNCHANGED <<sources, before, bytesVars, resultVars>>

\* this.merge(sources) on the receiver and sources drawn at the start; the
\* receiver itself is what merge returns.
MergeCall ==
  /\ call = NoCall
  /\ entries' = merge(entries, sources)
  /\ call' = [op |-> "merge", ret |-> entries']
  /\ UNCHANGED <<sources, before, bytesVars, resultVars>>

(***************************************************************************)
(* Result<V, E> and Wrapped<T>                                             *)
(***************************************************************************)
\* Most Result instances alive at once.
MaxResults == 2

\* Payloads a producer wraps: parsed values and error flags.
OkPayloads == {"json-a", "json-b"}
ErrPayloads == {"bad-input", "too-deep"}

\* A null reference in a `Wrapped<T> | null` field.
NullWrapped == [isNull |-> TRUE]

\* new Wrapped(inner)
Wrapped(inner) == [isNull |-> FALSE, inner |-> inner]

\* What a producer hands out: exactly one of the two fields set.
ResultOfValue(v) == [_value |-> Wrapped(v), _error |-> NullWrapped]
ResultOfError(e) == [_value |-> NullWrapped, _error |-> Wrapped(e)]

\* Result.isOk
Result_isOk(r) == r._value # NullWrapped

\* The test of the value field copied into isError.
Result_isErrorCopied(r) == r._value # NullWrapped

\* Result.isError
Result_isError(r) == r._error # NullWrapped

\* Result.value
Result_value(r) ==
  IF r._value # NullWrapped THEN Returned(r._value.inner) ELSE Aborted

\* The assertion guarding the wrong field.
Result_errorWrongGuard(r) ==
  IF r._value # NullWrapped
  THEN Returned(IF r._error # NullWrapped THEN r._error.inner ELSE "null")
  ELSE Aborted

\* Result.error
Result_error(r) ==
  IF r._error # NullWrapped THEN Returned(r._error.inner) ELSE Aborted

NoAccess == [op |-> "none"]

ResultIdle ==
  /\ results = <<>>
  /\ access = NoAccess

\* A producer returns a successful Result.
ProduceValue ==
  /\ Len(results) < MaxResults
  /\ \E v \in OkPayloads : results' = Append(results, ResultOfValue(v))
  /\ access' = NoAccess
  /\ UNCHANGED <<bytesVars, mapVars>>

\* A producer returns a failed Result.
ProduceError ==
  /\ Len(results) < MaxResults
  /\ \E e \in ErrPayloads : results' = Append(results, ResultOfError(e))
  /\ access' = NoAccess
  /\ UNCHANGED <<bytesVars, mapVars>>

\* r.isOk
ReadIsOk ==
  /\ \E i \in 1..Len(results) :
       access' = [op |-> "isOk", index |-> i, ret |-> Result_isOk(results[i])]
  /\ UNCHANGED <<results, bytesVars, mapVars>>

\* r.isError
ReadIsError ==
  /\ \E i \in 1..Len(results) :
       access' = [op |-> "isError", index |-> i, ret |-> Result_isError(results[i])]
  /\ UNCHANGED <<results, bytesVars, mapVars>>

\* r.value
ReadValue ==
  /\ \E i \in 1..Len(results) :
       access' = [op |-> "value", index |-> i, ret |-> Result_value(results[i])]
  /\ UNCHANGED <<results, bytesVars, mapVars>>

\* r.error
ReadError ==
  /\ \E i \in 1..Len(results) :
       access' = [op |-> "error", index |-> i, ret |-> Result_error(results[i])]
  /\ UNCHANGED <<results, bytesVars, mapVars>>

(***************************************************************************)
(* Specifications                                                          *)
(***************************************************************************)
Init == BytesIdle /\ MapIdle /\ ResultIdle

NextBytes == FromI32 \/ FromUint8Array \/ ToU32 \/ ToI32

NextMap ==
  \/ Set \/ Unset
  \/ SetString \/ SetI32 \/ SetBigInt \/ SetBytes \/ SetBoolean \/ SetBigDecimal
  \/ Get \/ GetEntry \/ IsSet
  \/ Merge

NextResult ==
  ProduceValue \/ ProduceError \/ ReadIsOk \/ ReadIsError \/ ReadValue \/ ReadError

\* One ByteArray: constructed once, then converted any number of times.
SpecBytes == Init /\ [][NextBytes]_vars

\* One Entity, from empty.
SpecMap == Init /\ [][NextMap]_vars

\* One merge call on a receiver and a source list.
InitMerge ==
  /\ BytesIdle
  /\ ResultIdle
  /\ entries \in MergeTargets
  /\ before = entries
  /\ sources \in SourceLists
  /\ call = NoCall

SpecMerge == InitMerge /\ [][MergeCall]_vars

\* Result instances.
SpecResult == Init /\ [][NextResult]_vars

\* The three families share no state; their composition.
Next == NextBytes \/ NextMap \/ NextResult
Spec == Init /\ [][Next]_vars

(***************************************************************************)
(* Properties of ByteArray, under SpecBytes                                *)
(***************************************************************************)
\* The i32 whose little-endian two's-complement encoding is the 4 bytes b.
SignedLE4(b) ==
  (b[1] + 256 * b[2] + 65536 * b[3])
    + 16777216 * (IF b[4] >= 128 THEN b[4] - 256 ELSE b[4])

\* The byte that extends a buffer's sign: 0xFF when the high bit of its
\* last byte is set, else 0x00.
Padding(buf) == IF Len(buf) > 0 /\ buf[Len(buf)] >= 128 THEN 255 ELSE 0

\* buf widened to n bytes with its sign byte.
SignExtend(buf, n) == [i \in 1..n |-> IF i <= Len(buf) THEN buf[i] ELSE Padding(buf)]

\* The 4 bytes of the two's-complement pattern of the i32 v, low byte first.
I32Pattern(v) ==
  <<v % 256, (v \div 256) % 256, (v \div 65536) % 256, (v \div 16777216) % 256>>

\* buf, read whole as a little-endian two's-complement number, is the
\* number v: widened to a common width the two patterns are the same.
SameNumber(buf, v) ==
  LET n == IF Len(buf) > 4 THEN Len(buf) ELSE 4
  IN SignExtend(buf, n) = SignExtend(I32Pattern(v), n)

First4(buf) == SubSeq(buf, 1, 4)

\* C1: for every i32 x, fromI32(x) is the 4-byte little-endian encoding of
\* x, and toI32 on it returns x without an overflow abort.
C1_FromI32RoundTrip ==
  origin = "fromI32" =>
    /\ Len(bytes) = 4
    /\ \A i \in 1..4 : bytes[i] \in 0..255
    /\ SignedLE4(bytes) = arg
    /\ conv.op = "toI32" => conv.ret = Returned(arg)

C1_Witness ==
  /\ origin = "fromI32"
  /\ arg = MinI32
  /\ conv.op = "toI32"
  /\ conv.ret = Returned(MinI32)

C10_ToI32Lossless ==
  (conv.op = "toI32" /\ conv.ret # Aborted) => SameNumber(bytes, conv.ret.value)

(***************************************************************************)
(* Properties of TypedMap and Entity, under SpecMap and SpecMerge          *)
(***************************************************************************)
\* C3: from an empty map, after any sequence of set, unset, typed setters
\* and merge, no two entries at different positions have equal keys.
C3_UniqueKeys ==
  \A i, j \in 1..Len(entries) : i # j => entries[i].key # entries[j].key

C3_Witness ==
  /\ call.op = "merge"
  /\ call.count = 2
  /\ Len(entries) = 2

\* C4: set(k, v) on a map holding k replaces the value in place: same
\* length, same keys in the same order, every other value kept, and get(k)
\* gives v; on a map not holding k it appends exactly (k, v) at the end.
C4_SetInPlaceOrAppend ==
  [][call'.op = "set" =>
       LET k == call'.key
           v == call'.value
       IN IF \E i \in 1..Len(entries) : entries[i].key = k
          THEN /\ Len(entries') = Len(entries)
               /\ \A i \in 1..Len(entries) :
                    /\ entries'[i].key = entries[i].key
                    /\ entries'[i].value =
                         IF entries[i].key = k THEN v ELSE entries[i].value
               /\ get(entries', k) = ValueRef(v)
          ELSE entries' = Append(entries, [key |-> k, value |-> v])]_vars

C4_Witness ==
  /\ call.op = "set"
  /\ call.hit
  /\ Len(entries) = 2
  /\ entries[1].key = call.key
  /\ entries[1].value = call.value
  /\ entries[2].value # call.value

\* C8: unset(key) never removes an entry: an existing entry keeps its
\* position and gets the null-tagged value, all others unchanged; a missing
\* key gets a new null-tagged entry at the end; afterwards isSet(key) is
\* true and the map is no shorter.
C8_UnsetKeepsEntry ==
  [][call'.op = "unset" =>
       LET k == call'.key
       IN /\ IF \E i \in 1..Len(entries) : entries[i].key = k
             THEN /\ Len(entries') = Len(entries)
                  /\ \A i \in 1..Len(entries) :
                       /\ entries'[i].key = entries[i].key
                       /\ entries'[i].value =
                            IF entries[i].key = k THEN ValueFromNull ELSE entries[i].value
             ELSE entries' = Append(entries, [key |-> k, value |-> ValueFromNull])
          /\ isSet(entries', k)
          /\ Len(entries') >= Len(entries)]_vars

C8_Witness ==
  /\ call.op = "unset"
  /\ call.hit
  /\ Len(entries) = 2
  /\ entries[1].key = call.key
  /\ entries[1].value = ValueFromNull
  /\ entries[2].value # ValueFromNull

\* What a lookup of key k in es is to answer: the first entry with that key.
Holds(es, k) == \E i \in 1..Len(es) : es[i].key = k
First(es, k) == CHOOSE i \in 1..Len(es) : es[i].key = k /\ \A j \in 1..(i - 1) : es[j].key # k

C9_Answers ==
  /\ \A k \in Keys : isSet(entries, k) <=> (getEntry(entries, k) # 0)
  /\ call.op = "isSet" => call.ret = Holds(entries, call.key)
  /\ call.op = "get" =>
       call.ret = IF Holds(entries, call.key)
                  THEN [found |-> TRUE, value |-> entries[First(entries, call.key)].value]
                  ELSE [found |-> FALSE]
  /\ call.op = "getEntry" =>
       call.ret = IF Holds(entries, call.key)
                  THEN [found |-> TRUE, index |-> First(entries, call.key), key |-> call.key,
                        value |-> entries[First(entries, call.key)].value]
                  ELSE [found |-> FALSE]

\* C9: on a key the map does not hold, isSet answers false and get and
\* getEntry answer null; for any key isSet agrees with getEntry, and get
\* answers the value of the first entry with that key; a lookup always
\* returns and leaves the map as it was.
C9_LookupsTotalAndPure ==
  /\ []C9_Answers
  /\ [][call'.op \in {"get", "getEntry", "isSet"} => entries' = entries]_vars

C9_Witness ==
  /\ call.op = "get"
  /\ call.ret = NullRef
  /\ Len(entries) = 1
  /\ entries[1].key # call.key

HasOnlyValue(r) == r._value # NullWrapped /\ r._error = NullWrapped
HasOnlyError(r) == r._value = NullWrapped /\ r._error # NullWrapped

\* C7: a Result holding only a value answers isOk true, isError false,
\* value the stored value, and aborts on error; one holding only an error
\* answers isOk false, isError true, error the stored error, and aborts on
\* value.
C7_AccessorsByVariant ==
  /\ access.op # "none" =>
       LET r == results[access.index]
       IN /\ HasOnlyValue(r) =>
               /\ access.op = "isOk" => access.ret = TRUE
               /\ access.op = "isError" => access.ret = FALSE
               /\ access.op = "value" => access.ret = Returned(r._value.inner)
               /\ access.op = "error" => access.ret = Aborted
          /\ HasOnlyError(r) =>
               /\ access.op = "isOk" => access.ret = FALSE
               /\ access.op = "isError" => access.ret = TRUE
               /\ access.op = "error" => access.ret = Returned(r._error.inner)
               /\ access.op = "value" => access.ret = Aborted

C7_Witness ==
  /\ access.op = "error"
  /\ HasOnlyValue(results[access.index])
  /\ access.ret = Aborted

====
